---- MODULE Spec2Model ----
(***************************************************************************)
(* Model of the rule-batch analysis pipeline of erisaV2.py:                *)
(* ErisaAnalyzer.execute_all_rules (catalog load, document read, split,    *)
(* one evaluator call per (rule, chunk), merge, structured JSON write) and *)
(* ErisaAnalyzer.convert_json_to_csv (read back the JSON, delete a stale   *)
(* CSV, write the CSV).                                                    *)
(*                                                                         *)
(* Text is a sequence of one-character strings.  A file is a record        *)
(* [kind, body]; the body of a JSON file is the ordered mapping it holds   *)
(* (a sequence of entries), the body of a CSV file is its sequence of rows,*)
(* each row a sequence of cells, each cell the characters written for it   *)
(* between two delimiters.                                                 *)
(***************************************************************************)
EXTENDS Integers, Sequences, FiniteSets, TLC

\* ------------------------------------------------------------------ bounds
MaxRules == 2
MaxChunks == 2
MaxDerive == 2

\* -------------------------------------------------------------- characters
Q == "\""
CR == "\r"
LF == "\n"
SP == " "

\* the characters str.strip() removes, among those the model uses
Whitespace == {SP, LF, CR, "\t"}

Digits == <<"0", "1", "2", "3", "4", "5", "6", "7", "8", "9">>

RECURSIVE Str(_)
\* str(n) of a natural number, as the f-string formats i+1
Str(n) == IF n < 10 THEN <<Digits[n + 1]>> ELSE Str(n \div 10) \o <<Digits[(n % 10) + 1]>>

RECURSIVE LStrip(_)
LStrip(s) == IF s = <<>> THEN s ELSE IF Head(s) \in Whitespace THEN LStrip(Tail(s)) ELSE s

RECURSIVE RStrip(_)
RStrip(s) == IF s = <<>> THEN s ELSE IF s[Len(s)] \in Whitespace THEN RStrip(SubSeq(s, 1, Len(s) - 1)) ELSE s

\* as Strip, nothing removed
NoStrip(s) == s

\* str.strip(): leading and trailing whitespace removed
Strip(s) == RStrip(LStrip(s))

RECURSIVE Replace(_, _, _)
\* str.replace(c, t) for a one-character c
Replace(s, c, t) == IF s = <<>> THEN <<>> ELSE (IF Head(s) = c THEN t ELSE <<Head(s)>>) \o Replace(Tail(s), c, t)

\* ------------------------------------------------------------ the literals
DocumentChunk == <<"D", "o", "c", "u", "m", "e", "n", "t", " ", "c", "h", "u", "n", "k", " ">>

FieldRule == <<"R", "u", "l", "e">>
FieldRuleDefinition == <<"R", "u", "l", "e", " ", "D", "e", "f", "i", "n", "i", "t", "i", "o", "n">>
FieldComply == <<"C", "o", "m", "p", "l", "y", " ", "Y", "e", "s", "/", "N", "o">>
FieldCitation == <<"C", "i", "t", "a", "t", "i", "o", "n">>
fieldnames == <<FieldRule, FieldRuleDefinition, FieldComply, FieldCitation>>

\* ------------------------------------------------------------------- files
Absent == [kind |-> "absent", body |-> <<>>]
NotADict == [kind |-> "json_list", body |-> <<>>]
Truncated == [kind |-> "json_truncated", body |-> <<>>]
JsonDict(entries) == [kind |-> "json_dict", body |-> entries]
CsvFile(rows) == [kind |-> "csv", body |-> rows]

Entry(name, definition) == [rule |-> name, def |-> definition, comply |-> <<>>, citation |-> <<>>]

\* the worked example of the export format: He said "ok"\nDone
HeSaid == <<"H", "e", " ", "s", "a", "i", "d", " ", Q, "o", "k", Q, LF, "D", "o", "n", "e">>


\* ------------------------------------------------------ the tabular format
\* details.get("Rule Definition", "").replace('\r', ' ').replace('\n', ' ').replace('"', '""')
RuleDef(d) == Replace(Replace(Replace(d, CR, <<SP>>), LF, <<SP>>), Q, <<Q, Q>>)

\* what csv.writer(quoting=QUOTE_ALL) writes for one field: the dialect's
\* doublequote is on, so the writer doubles each quote of the field itself
WriterCell(field) == <<Q>> \o Replace(field, Q, <<Q, Q>>) \o <<Q>>

\* writer.writerow({...}) for one item of the mapping
WriteRow(e) == <<WriterCell(e.rule), WriterCell(RuleDef(e.def)), WriterCell(e.comply), WriterCell(e.citation)>>

\* writer.writeheader()
WriteHeader == [k \in DOMAIN fieldnames |-> WriterCell(fieldnames[k])]

\* the rows written for the mapping read from the structured file
CsvRows(d) == <<WriteHeader>> \o [k \in DOMAIN d |-> WriteRow(d[k])]

\* ------------------------------------------------- the world outside the run
RuleNames == {"A", "B", "C"}
TemplateOf == [A |-> "a", B |-> "b", C |-> "c"]

\* Templates/erisaRules.json: an ordered mapping with unique keys
CatalogOrders == {c \in UNION {[1..m -> RuleNames] : m \in 0..MaxRules} : \A j, k \in DOMAIN c : c[j] = c[k] => j = k}
CatalogOf(c) == [k \in DOMAIN c |-> [name |-> <<c[k]>>, template |-> <<TemplateOf[c[k]]>>]]

\* the text of the k-th chunk of the document
ChunkText(k) == [j \in 1..k |-> "x"]

\* what the evaluator wraps around its answer; chosen once per behaviour
Leads == {<<>>, <<SP>>, <<LF>>}
Mids == {<<>>, <<Q, CR>>}
Trails == {<<>>, <<LF, SP>>}
Styles == [echo : BOOLEAN, lead : Leads, mid : Mids, trail : Trails]

\* files found in the input directory when the program starts
OldJson == JsonDict(<<Entry(<<"Z">>, HeSaid)>>)
OldCsv == CsvFile(<<WriteHeader, WriteRow(Entry(<<"O">>, <<"o", "l", "d">>))>>)
InitialJson == {Absent, NotADict, OldJson}
InitialCsv == {Absent, OldCsv}

NoError == [kind |-> "none", rule |-> <<>>, chunk |-> 0]
Report(k) == [kind |-> k, rule |-> <<>>, chunk |-> 0]

VARIABLES env, pc, phase, catalog, queries, r, i, result_prompt, all_results, calls, data, json, csv, error, hist

vars == <<env, pc, phase, catalog, queries, r, i, result_prompt, all_results, calls, data, json, csv, error, hist>>

Init ==
    /\ env \in [catalogFile : {CatalogOf(c) : c \in CatalogOrders}, nChunks : 1..MaxChunks, style : Styles, json0 : InitialJson, csv0 : InitialCsv]
    /\ pc = "idle"
    /\ phase = "none"
    /\ catalog = <<>>
    /\ queries = <<>>
    /\ r = 0
    /\ i = 0
    /\ result_prompt = <<>>
    /\ all_results = <<>>
    /\ calls = <<>>
    /\ data = <<>>
    /\ json = env.json0
    /\ csv = env.csv0
    /\ error = NoError
    /\ hist = <<>>

\* --------------------------------------------------------- external modules
\* load_templates_from_json: the ordered mapping the catalog file holds
load_templates_from_json == env.catalogFile

\* split_query_by_length_with_overlap: a non-empty, ordered sequence of chunks
split_query_by_length_with_overlap == [k \in 1..env.nChunks |-> ChunkText(k)]

\* generate_prompts(template_bdd, chunk): text that depends on nothing else
generate_prompts(template_bdd, chunk) ==
    IF env.style.echo
    THEN env.style.lead \o template_bdd \o env.style.mid \o chunk \o env.style.trail
    ELSE env.style.lead \o env.style.mid \o env.style.trail

\* -------------------------------------------------------- execute_all_rules
LoadTemplates ==
    /\ pc = "idle"
    /\ pc' = "read"
    /\ phase' = "running"
    /\ catalog' = load_templates_from_json
    /\ UNCHANGED <<env, queries, r, i, result_prompt, all_results, calls, data, json, csv, error, hist>>

LoadTemplatesFail ==
    /\ pc = "idle"
    /\ pc' = "exit"
    /\ phase' = "aborted"
    /\ error' = Report("load_templates")
    /\ UNCHANGED <<env, catalog, queries, r, i, result_prompt, all_results, calls, data, json, csv, hist>>

ReadInputFile ==
    /\ pc = "read"
    /\ pc' = "split"
    /\ UNCHANGED <<env, phase, catalog, queries, r, i, result_prompt, all_results, calls, data, json, csv, error, hist>>

ReadInputFileFail ==
    /\ pc = "read"
    /\ pc' = "exit"
    /\ phase' = "aborted"
    /\ error' = Report("read_input_file")
    /\ UNCHANGED <<env, catalog, queries, r, i, result_prompt, all_results, calls, data, json, csv, hist>>

SplitQuery ==
    /\ pc = "split"
    /\ queries' = split_query_by_length_with_overlap
    /\ all_results' = <<>>
    /\ r' = 1
    /\ pc' = "rule"
    /\ UNCHANGED <<env, phase, catalog, i, result_prompt, calls, data, json, csv, error, hist>>

\* for rule_name, template_bdd in template_prompts.items(): ... result_prompt = ""
BeginRule ==
    /\ pc = "rule"
    /\ r <= Len(catalog)
    /\ result_prompt' = <<>>
    /\ i' = 1
    /\ pc' = "chunk"
    /\ UNCHANGED <<env, phase, catalog, queries, r, all_results, calls, data, json, csv, error, hist>>

\* as Accumulate, the label written whatever the number of chunks
AccumulateAlwaysLabelled(acc, n, k, out) == acc \o DocumentChunk \o Str(k) \o <<":", LF>> \o out \o <<LF, LF>>

\* the value of result_prompt after the evaluator returned out for chunk k of n
Accumulate(acc, n, k, out) == IF n = 1 THEN out ELSE acc \o DocumentChunk \o Str(k) \o <<":", LF>> \o out \o <<LF, LF>>

\* as Evaluate, every call given queries[0]
EvaluateFirstChunk ==
    /\ pc = "chunk"
    /\ i <= Len(queries)
    /\ LET out == generate_prompts(catalog[r].template, queries[1])
       IN /\ result_prompt' = Accumulate(result_prompt, Len(queries), i, out)
          /\ calls' = Append(calls, [rule |-> catalog[r].name, index |-> i, template |-> catalog[r].template, chunk |-> queries[1], out |-> out])
    /\ i' = i + 1
    /\ UNCHANGED <<env, pc, phase, catalog, queries, r, all_results, data, json, csv, error, hist>>

\* one call of generate_prompts, for rule r and chunk i, which returns
Evaluate ==
    /\ pc = "chunk"
    /\ i <= Len(queries)
    /\ LET out == generate_prompts(catalog[r].template, queries[i])
       IN /\ result_prompt' = Accumulate(result_prompt, Len(queries), i, out)
          /\ calls' = Append(calls, [rule |-> catalog[r].name, index |-> i, template |-> catalog[r].template, chunk |-> queries[i], out |-> out])
    /\ i' = i + 1
    /\ UNCHANGED <<env, pc, phase, catalog, queries, r, all_results, data, json, csv, error, hist>>

\* one call of generate_prompts which raises: nothing in execute_all_rules
\* catches it, the exception leaves the method as the evaluator raised it
EvaluateFail ==
    /\ pc = "chunk"
    /\ i <= Len(queries)
    /\ pc' = "crashed"
    /\ phase' = "aborted"
    /\ error' = Report("generate_prompts")
    /\ UNCHANGED <<env, catalog, queries, r, i, result_prompt, all_results, calls, data, json, csv, hist>>

\* as DictSet, a new key put in front of the others
DictSetInFront(d, key, value) ==
    IF \E k \in DOMAIN d : d[k].rule = key
    THEN [k \in DOMAIN d |-> IF d[k].rule = key THEN value ELSE d[k]]
    ELSE <<value>> \o d

\* d[key] = value on an insertion-ordered dict
DictSet(d, key, value) ==
    IF \E k \in DOMAIN d : d[k].rule = key
    THEN [k \in DOMAIN d |-> IF d[k].rule = key THEN value ELSE d[k]]
    ELSE Append(d, value)

\* all_results[rule_name] = {"Rule Definition": result_prompt.strip(), ...}
StoreRule ==
    /\ pc = "chunk"
    /\ i > Len(queries)
    /\ all_results' = DictSet(all_results, catalog[r].name, Entry(catalog[r].name, Strip(result_prompt)))
    /\ r' = r + 1
    /\ pc' = "rule"
    /\ UNCHANGED <<env, phase, catalog, queries, i, result_prompt, calls, data, json, csv, error, hist>>

\* what may go wrong outside the program during one derivation
DeriveFaults == {"none", "read_json", "remove_csv", "open_csv", "write_csv"}

\* a derivation begins: what it found on disk is remembered
Begun(j, c, f) == [input |-> j, before |-> c, fault |-> f, status |-> "running", after |-> c]

\* open(json_output_path, 'w') and json.dump succeed; convert_json_to_csv is called
SaveJson ==
    /\ pc = "rule"
    /\ r > Len(catalog)
    /\ json' = JsonDict(all_results)
    /\ \E f \in DeriveFaults : hist' = Append(hist, Begun(json', csv, f))
    /\ pc' = "convert_read"
    /\ UNCHANGED <<env, phase, catalog, queries, r, i, result_prompt, all_results, calls, data, csv, error>>

\* open(json_output_path, 'w') raises: the file is as it was
SaveJsonOpenFail ==
    /\ pc = "rule"
    /\ r > Len(catalog)
    /\ pc' = "crashed"
    /\ phase' = "aborted"
    /\ error' = Report("json_write")
    /\ UNCHANGED <<env, catalog, queries, r, i, result_prompt, all_results, calls, data, json, csv, hist>>

\* json.dump raises after the file was opened (and so truncated)
SaveJsonDumpFail ==
    /\ pc = "rule"
    /\ r > Len(catalog)
    /\ json' = Truncated
    /\ pc' = "crashed"
    /\ phase' = "aborted"
    /\ error' = Report("json_write")
    /\ UNCHANGED <<env, catalog, queries, r, i, result_prompt, all_results, calls, data, csv, hist>>


\* ------------------------------------------------------ convert_json_to_csv
Cur == hist[Len(hist)]

\* the derivation returns; execute_all_rules, if it called, returns with it
Finish(status, report, csvAfter) ==
    /\ hist' = [hist EXCEPT ![Len(hist)].status = status, ![Len(hist)].after = csvAfter]
    /\ csv' = csvAfter
    /\ error' = report
    /\ pc' = "done"
    /\ phase' = IF phase = "running" THEN "completed" ELSE phase

\* a caller invokes convert_json_to_csv on the structured file's path
CallConvert ==
    /\ pc \in {"idle", "done"}
    /\ phase = "none"
    /\ Len(hist) < MaxDerive
    /\ \E f \in DeriveFaults : hist' = Append(hist, Begun(json, csv, f))
    /\ error' = NoError
    /\ pc' = "convert_read"
    /\ UNCHANGED <<env, phase, catalog, queries, r, i, result_prompt, all_results, calls, data, json, csv>>

\* as ConvertRead, a missing file read as an empty mapping
ConvertReadMissingAsEmpty ==
    /\ pc = "convert_read"
    /\ Cur.fault # "read_json"
    /\ json.kind \in {"json_dict", "absent"}
    /\ data' = json.body
    /\ pc' = "convert_remove"
    /\ UNCHANGED <<env, phase, catalog, queries, r, i, result_prompt, all_results, calls, json, csv, error, hist>>

\* open(json_file_path) and json.load succeed and give a dict
ConvertRead ==
    /\ pc = "convert_read"
    /\ Cur.fault # "read_json"
    /\ json.kind = "json_dict"
    /\ data' = json.body
    /\ pc' = "convert_remove"
    /\ UNCHANGED <<env, phase, catalog, queries, r, i, result_prompt, all_results, calls, json, csv, error, hist>>

\* open or json.load raises (no file, no access, not JSON): except Exception
ConvertReadFail ==
    /\ pc = "convert_read"
    /\ \/ Cur.fault = "read_json"
       \/ json.kind \in {"absent", "json_truncated"}
    /\ Finish("convert_failed", Report("csv_convert"), csv)
    /\ UNCHANGED <<env, catalog, queries, r, i, result_prompt, all_results, calls, data, json>>

\* if not isinstance(data, dict): logger.error(...); return
ConvertNotDict ==
    /\ pc = "convert_read"
    /\ Cur.fault # "read_json"
    /\ json.kind = "json_list"
    /\ Finish("not_dict", Report("not_dict"), csv)
    /\ UNCHANGED <<env, catalog, queries, r, i, result_prompt, all_results, calls, data, json>>

\* as ConvertRemove, the stale file left in place
ConvertRemoveKeeps ==
    /\ pc = "convert_remove"
    /\ pc' = "convert_write"
    /\ UNCHANGED <<env, phase, catalog, queries, r, i, result_prompt, all_results, calls, data, json, csv, error, hist>>

\* as ConvertRemove, a file that exists ends the derivation
ConvertRemoveRefuses ==
    /\ pc = "convert_remove"
    /\ IF csv.kind # "absent"
       THEN Finish("exists", Report("csv_convert"), csv)
       ELSE pc' = "convert_write" /\ UNCHANGED <<phase, csv, error, hist>>
    /\ UNCHANGED <<env, catalog, queries, r, i, result_prompt, all_results, calls, data, json>>

\* if os.path.exists(csv_output_path): os.remove(csv_output_path), which succeeds
ConvertRemove ==
    /\ pc = "convert_remove"
    /\ IF csv.kind # "absent"
       THEN Cur.fault # "remove_csv" /\ csv' = Absent
       ELSE csv' = csv
    /\ pc' = "convert_write"
    /\ UNCHANGED <<env, phase, catalog, queries, r, i, result_prompt, all_results, calls, data, json, error, hist>>

\* os.remove raises: logger.error(...); return
ConvertRemoveFail ==
    /\ pc = "convert_remove"
    /\ csv.kind # "absent"
    /\ Cur.fault = "remove_csv"
    /\ Finish("delete_failed", Report("csv_delete"), csv)
    /\ UNCHANGED <<env, catalog, queries, r, i, result_prompt, all_results, calls, data, json>>

\* open(csv_output_path, 'w') and every write succeed
ConvertWrite ==
    /\ pc = "convert_write"
    /\ Cur.fault \notin {"open_csv", "write_csv"}
    /\ Finish("ok", NoError, CsvFile(CsvRows(data)))
    /\ UNCHANGED <<env, catalog, queries, r, i, result_prompt, all_results, calls, data, json>>

\* open(csv_output_path, 'w') raises: except Exception
ConvertOpenFail ==
    /\ pc = "convert_write"
    /\ Cur.fault = "open_csv"
    /\ Finish("convert_failed", Report("csv_convert"), csv)
    /\ UNCHANGED <<env, catalog, queries, r, i, result_prompt, all_results, calls, data, json>>

\* a write raises after k rows: the file is closed with what was written
ConvertWriteFail ==
    /\ pc = "convert_write"
    /\ Cur.fault = "write_csv"
    /\ \E k \in 0..(Len(CsvRows(data)) - 1) : Finish("convert_failed", Report("csv_convert"), CsvFile(SubSeq(CsvRows(data), 1, k)))
    /\ UNCHANGED <<env, catalog, queries, r, i, result_prompt, all_results, calls, data, json>>

Next ==
    \/ LoadTemplates
    \/ LoadTemplatesFail
    \/ ReadInputFile
    \/ ReadInputFileFail
    \/ SplitQuery
    \/ BeginRule
    \/ Evaluate
    \/ EvaluateFail
    \/ StoreRule
    \/ SaveJson
    \/ SaveJsonOpenFail
    \/ SaveJsonDumpFail
    \/ ConvertRead
    \/ ConvertReadFail
    \/ ConvertRemove
    \/ ConvertRemoveFail
    \/ ConvertWrite
    \/ ConvertOpenFail
    \/ ConvertWriteFail

\* one run of the program; the file json.load reads is the dict json.dump has
\* just written, so the isinstance branch (ConvertNotDict) is not taken here: python erisaV2.py -i <dir> -if <file> -f <type>
Spec == Init /\ [][Next]_vars

\* ------------------------------------------- derivations on their own
\* structured files a caller may hand to convert_json_to_csv
SampleDef == [A |-> HeSaid, B |-> <<>>, C |-> <<"c", CR, LF, Q, Q>>]
StoredJson == {Absent, NotADict, Truncated} \cup {JsonDict([k \in DOMAIN c |-> Entry(<<c[k]>>, SampleDef[c[k]])]) : c \in CatalogOrders}

InitDerive ==
    /\ env \in [catalogFile : {<<>>}, nChunks : {1}, style : {[echo |-> TRUE, lead |-> <<>>, mid |-> <<>>, trail |-> <<>>]}, json0 : StoredJson, csv0 : InitialCsv]
    /\ pc = "idle"
    /\ phase = "none"
    /\ catalog = <<>>
    /\ queries = <<>>
    /\ r = 0
    /\ i = 0
    /\ result_prompt = <<>>
    /\ all_results = <<>>
    /\ calls = <<>>
    /\ data = <<>>
    /\ json = env.json0
    /\ csv = env.csv0
    /\ error = NoError
    /\ hist = <<>>

NextDerive ==
    \/ CallConvert
    \/ ConvertRead
    \/ ConvertReadFail
    \/ ConvertNotDict
    \/ ConvertRemove
    \/ ConvertRemoveFail
    \/ ConvertWrite
    \/ ConvertOpenFail
    \/ ConvertWriteFail

\* convert_json_to_csv called up to MaxDerive times on one directory
SpecDerive == InitDerive /\ [][NextDerive]_vars


\* ===================================================================== claims
Finished == pc = "done" /\ hist # <<>>
RunEnded == pc \in {"done", "exit", "crashed"}
RunCompleted == pc = "done" /\ phase = "completed"
\* the outputs the evaluator returned for the k-th rule of the catalog
OutsOf(k) == [j \in 1..Len(queries) |-> calls[(k - 1) * Len(queries) + j].out]

\* C1 (as claimed): after a successful derivation the Rule Definition cell of
\* every row is the stored definition with CR and LF each replaced by a
\* space and each quote doubled exactly once, inside one pair of quotes; the
\* definition He said "ok"\nDone gives the cell "He said ""ok"" Done".
ClaimedCell(d) == <<Q>> \o Replace(Replace(Replace(d, CR, <<SP>>), LF, <<SP>>), Q, <<Q, Q>>) \o <<Q>>
HeSaidCell == <<Q, "H", "e", " ", "s", "a", "i", "d", " ", Q, Q, "o", "k", Q, Q, " ", "D", "o", "n", "e", Q>>
C1_CellQuotesDoubledOnce ==
    (Finished /\ Cur.status = "ok") =>
        \A k \in DOMAIN json.body :
            /\ csv.body[k + 1][2] = ClaimedCell(json.body[k].def)
            /\ json.body[k].def = HeSaid => csv.body[k + 1][2] = HeSaidCell

\* C2 (as claimed): a run ends either with both exports of this run complete
\* or with neither file touched by this run.
C2_BothExportsOrNeither ==
    RunEnded =>
        \/ /\ hist # <<>>
           /\ json = JsonDict(all_results)
           /\ Cur.status = "ok"
           /\ csv = CsvFile(CsvRows(all_results))
        \/ /\ json = env.json0
           /\ csv = env.csv0

RECURSIVE Labelled(_, _)
\* "Document chunk j:\n" + outs[j] + "\n\n" for j = 1..k, concatenated
Labelled(outs, k) == IF k = 0 THEN <<>> ELSE Labelled(outs, k - 1) \o DocumentChunk \o Str(k) \o <<":", LF>> \o outs[k] \o <<LF, LF>>

\* s is t without the whitespace t ends with
IsRStripOf(s, t) ==
    /\ Len(s) <= Len(t)
    /\ s = SubSeq(t, 1, Len(s))
    /\ \A j \in (Len(s) + 1)..Len(t) : t[j] \in Whitespace
    /\ s # <<>> => s[Len(s)] \notin Whitespace

\* s is t without the whitespace t begins and ends with
IsStripOf(s, t) ==
    \E p \in 0..Len(t) :
        /\ \A j \in 1..p : t[j] \in Whitespace
        /\ p < Len(t) => t[p + 1] \notin Whitespace
        /\ IsRStripOf(s, SubSeq(t, p + 1, Len(t)))

\* C3 (as claimed): with n >= 2 chunks every stored definition is the
\* concatenation of the labelled outputs, the "\n\n" after the last included.
C3_LabelledWithTrailingNewlines ==
    (hist # <<>> /\ phase # "none" /\ Len(queries) >= 2) =>
        \A k \in DOMAIN json.body : json.body[k].def = Labelled(OutsOf(k), Len(queries))

\* C3 (amended): with n >= 2 chunks every stored definition is that
\* concatenation without the whitespace it ends with: the "\n\n" after the last
\* chunk and any whitespace ending the last output are absent.
C3_LabelledThenStripped ==
    (hist # <<>> /\ phase # "none" /\ Len(queries) >= 2) =>
        \A k \in DOMAIN json.body :
            /\ IsRStripOf(json.body[k].def, Labelled(OutsOf(k), Len(queries)))
            /\ SubSeq(json.body[k].def, 1, Len(DocumentChunk)) = DocumentChunk

C3_Witness ==
    /\ RunCompleted
    /\ Len(queries) >= 2
    /\ Len(json.body) >= 2
    /\ env.style.trail # <<>>
    /\ env.style.echo

\* C4 (as claimed): with one chunk every stored definition is the evaluator's
\* output, character for character.
C4_SingleChunkVerbatim ==
    (hist # <<>> /\ phase # "none" /\ Len(queries) = 1) =>
        \A k \in DOMAIN json.body : json.body[k].def = calls[k].out

\* C4 (amended): with one chunk every stored definition is the evaluator's
\* output without the whitespace it begins and ends with, and nothing else is
\* added or removed (no "Document chunk" label).
C4_SingleChunkStripped ==
    (hist # <<>> /\ phase # "none" /\ Len(queries) = 1) =>
        \A k \in DOMAIN json.body : IsStripOf(json.body[k].def, calls[k].out)

C4_Witness ==
    /\ RunCompleted
    /\ Len(queries) = 1
    /\ Len(json.body) >= 1
    /\ env.style.lead # <<>>
    /\ env.style.trail # <<>>
    /\ json.body[1].def # calls[1].out

\* C5 (as claimed): when the evaluator fails the run stops at that call, the
\* reported failure names the rule and the chunk index, and neither file is
\* written or modified.
C5_EvaluatorFailureIdentified ==
    (pc = "crashed" /\ error.kind = "generate_prompts") =>
        /\ Len(calls) = (r - 1) * Len(queries) + (i - 1)
        /\ json = env.json0
        /\ csv = env.csv0
        /\ error.rule = catalog[r].name
        /\ error.chunk = i


\* C6: a tabular file that exists is deleted before any byte of the new one is
\* written (the file changes only from or to absent); when the deletion fails
\* the derivation returns with the deletion error reported and the file's
\* content as it was.
C6_DeleteBeforeWrite ==
    [][/\ csv' # csv => (csv = Absent \/ csv' = Absent)
       /\ pc' = "convert_write" => csv' = Absent
       /\ (pc = "convert_remove" /\ csv # Absent /\ Cur.fault = "remove_csv") =>
            /\ csv' = csv
            /\ pc' = "done"
            /\ error'.kind = "csv_delete"
            /\ hist'[Len(hist')].status = "delete_failed"]_vars

C6_Witness ==
    /\ Finished
    /\ Cur.status = "delete_failed"
    /\ Cur.before = OldCsv
    /\ csv = OldCsv
    /\ error.kind = "csv_delete"

\* C7: two derivations in succession from the same structured file, with
\* nothing failing outside the program, both succeed, the second although the
\* first one's tabular file exists, and leave the same tabular content: the
\* header and one row per entry, nothing of the earlier file kept.
C7_DeriveTwiceSame ==
    \A b \in DOMAIN hist :
        (/\ b > 1
         /\ hist[b].status # "running"
         /\ hist[b].fault = "none"
         /\ hist[b - 1].fault = "none"
         /\ hist[b].input = hist[b - 1].input
         /\ hist[b].input.kind = "json_dict") =>
            /\ hist[b - 1].status = "ok"
            /\ hist[b].before = hist[b - 1].after
            /\ hist[b].before.kind = "csv"
            /\ hist[b].status = "ok"
            /\ hist[b].after = hist[b - 1].after
            /\ Len(hist[b].after.body) = 1 + Len(hist[b].input.body)

C7_Witness ==
    /\ Finished
    /\ Len(hist) >= 2
    /\ hist[1].fault = "none"
    /\ hist[2].fault = "none"
    /\ hist[2].status = "ok"
    /\ hist[2].before.kind = "csv"
    /\ Len(hist[2].input.body) >= 2
    /\ hist[1].before = OldCsv

\* C8: after a run that completes without error the structured file holds one
\* entry per rule of the catalog, in catalog order, and the tabular file holds
\* the header row and then one row per entry in that order, whose Rule column
\* is the entry's key.
C8_OneRowPerRuleInCatalogOrder ==
    (RunCompleted /\ error = NoError) =>
        /\ json.kind = "json_dict"
        /\ Len(json.body) = Len(catalog)
        /\ \A k \in DOMAIN catalog : json.body[k].rule = catalog[k].name
        /\ csv.kind = "csv"
        /\ Len(csv.body) = 1 + Len(json.body)
        /\ csv.body[1] = [k \in DOMAIN fieldnames |-> <<Q>> \o fieldnames[k] \o <<Q>>]
        /\ \A k \in DOMAIN json.body : csv.body[k + 1][1] = <<Q>> \o json.body[k].rule \o <<Q>>

C8_Witness ==
    /\ RunCompleted
    /\ error = NoError
    /\ Len(catalog) = 2
    /\ catalog[1].name = <<"B">>
    /\ catalog[2].name = <<"A">>
    /\ Len(csv.body) = 3

\* C9: the evaluator calls made so far are the first calls of the rule-major,
\* chunk-minor listing of the (rule, chunk) pairs, each with that rule's
\* template and that chunk's text; once the structured file is opened for
\* writing all m*n calls have been made, each pair once.
C9_CallsRuleMajorBeforeWrite ==
    /\ \A k \in DOMAIN calls :
        /\ calls[k].template = catalog[((k - 1) \div Len(queries)) + 1].template
        /\ calls[k].rule = catalog[((k - 1) \div Len(queries)) + 1].name
        /\ calls[k].chunk = queries[((k - 1) % Len(queries)) + 1]
        /\ calls[k].index = ((k - 1) % Len(queries)) + 1
    /\ Len(calls) <= Len(catalog) * Len(queries)
    /\ (hist # <<>> \/ json # env.json0 \/ error.kind = "json_write") => Len(calls) = Len(catalog) * Len(queries)

C9_Witness ==
    /\ RunCompleted
    /\ error = NoError
    /\ Len(catalog) = 2
    /\ Len(queries) = 2
    /\ Len(calls) = 4

\* C10 (as claimed): a derivation whose structured file is missing takes no
\* error path and ends as a derivation from an empty mapping does: stale
\* tabular file gone, a tabular file with only the header row written.
C10_MissingInputAsEmpty ==
    (Finished /\ Cur.input = Absent /\ Cur.fault = "none") =>
        /\ error = NoError
        /\ csv = CsvFile(CsvRows(<<>>))

\* C10 (amended): a derivation whose structured file is missing takes the
\* error path: the failure to open it is caught and reported, no tabular file
\* is deleted and none is written, the tabular path is as it was before.
C10_MissingInputReported ==
    \A b \in DOMAIN hist :
        (hist[b].input = Absent /\ hist[b].status # "running") =>
            /\ hist[b].status = "convert_failed"
            /\ hist[b].after = hist[b].before
            /\ (b = Len(hist) => error.kind = "csv_convert" /\ csv = hist[b].before)

C10_Witness ==
    /\ Finished
    /\ Cur.input = Absent
    /\ Cur.fault = "none"
    /\ Cur.before = OldCsv
    /\ csv = OldCsv

====
